---- MODULE Spec2Model ----
(***************************************************************************)
(* Dekhao Lab: the workflow orchestrator (src/App.tsx) and the generation  *)
(* gateway (src/services/geminiService.ts).                                *)
(*                                                                         *)
(* A JavaScript string is a sequence of tokens; the delimiters the code    *)
(* splits on (",", ":", ";", "/") and the whitespace the code trims are    *)
(* tokens of their own, so trim, split, template literals and JSON.parse   *)
(* are computed on the text.  The empty string is <<>>.  Error messages,   *)
(* on which the code performs no string operation, are TLA+ strings.       *)
(* Other JavaScript values are tagged records.                             *)
(***************************************************************************)
EXTENDS Integers, Sequences, FiniteSets, TLC

----------------------------------------------------------------------------
(* Bounds *)

\* operations (handler invocations awaiting a gateway call) in flight at once
MaxInFlight == 2
\* how many of the six THUMBNAIL_STYLES the style selector offers in the model
NumStyles == 2
\* the longest list of response parts given to editImage on its own
MaxParts == 3

----------------------------------------------------------------------------
(* JavaScript values and strings *)

Null == [t |-> "null"]
Undefined == [t |-> "undefined"]
Str(s) == [t |-> "string", s |-> s]

WhiteSpace == {" ", "\n"}

RECURSIVE TrimStart(_)
TrimStart(s) ==
  IF s # <<>> /\ Head(s) \in WhiteSpace THEN TrimStart(Tail(s)) ELSE s

RECURSIVE TrimEnd(_)
TrimEnd(s) ==
  IF s # <<>> /\ s[Len(s)] \in WhiteSpace
  THEN TrimEnd(SubSeq(s, 1, Len(s) - 1))
  ELSE s

\* String.prototype.trim
Trim(s) == TrimEnd(TrimStart(s))

\* String.prototype.split(sep) for a one-character separator
RECURSIVE Split(_, _)
Split(s, sep) ==
  IF \E i \in 1..Len(s) : s[i] = sep
  THEN LET i == CHOOSE k \in 1..Len(s) :
                  s[k] = sep /\ \A j \in 1..(k - 1) : s[j] # sep
       IN <<SubSeq(s, 1, i - 1)>> \o Split(SubSeq(s, i + 1, Len(s)), sep)
  ELSE <<s>>

\* String.prototype.includes
Contains(s, sub) ==
  \E i \in 1..(Len(s) - Len(sub) + 1) : SubSeq(s, i, i + Len(sub) - 1) = sub

\* `${v}` in a template literal
ToStr(v) == IF v.t = "string" THEN v.s ELSE <<v.t>>

\* the outcome of a function body: a returned value or a thrown Error
Return(v) == [ok |-> TRUE, value |-> v]
Throw(msg) == [ok |-> FALSE, message |-> msg]

----------------------------------------------------------------------------
(* JSON.parse, on the texts the provider returns here: null, or an object  *)
(* whose members are strings; any other text in Payloads is not JSON.      *)
(* A string literal runs to the next quote and must hold no raw control    *)
(* character; the texts in Payloads carry no escape sequences.             *)
(* Of a parsed object the program reads only seoTitle and description, so  *)
(* the value keeps those two members (Undefined when missing).             *)

Quote == "\""
EmptyObject == [t |-> "object", seoTitle |-> Undefined, description |-> Undefined]
NoParse == [ok |-> FALSE]

\* characters JSON.parse rejects inside a string literal
ControlChars == {"\n"}

\* a string literal at the head of toks: its content and the rest
ParseStringLit(toks) ==
  IF toks # <<>> /\ Head(toks) = Quote /\ \E j \in 2..Len(toks) : toks[j] = Quote
  THEN LET j == CHOOSE k \in 2..Len(toks) :
                  toks[k] = Quote /\ \A i \in 2..(k - 1) : toks[i] # Quote
       IN IF \E i \in 2..(j - 1) : toks[i] \in ControlChars
          THEN NoParse
          ELSE [ok |-> TRUE, val |-> SubSeq(toks, 2, j - 1),
                rest |-> TrimStart(SubSeq(toks, j + 1, Len(toks)))]
  ELSE NoParse

SetMember(obj, key, val) ==
  IF key = <<"seoTitle">> THEN [obj EXCEPT !.seoTitle = Str(val)]
  ELSE IF key = <<"description">> THEN [obj EXCEPT !.description = Str(val)]
  ELSE obj

\* key : value (, key : value)* }
RECURSIVE ParseMembers(_, _)
ParseMembers(toks, obj) ==
  LET k == ParseStringLit(toks) IN
  IF ~k.ok \/ k.rest = <<>> \/ Head(k.rest) # ":" THEN NoParse
  ELSE LET v == ParseStringLit(TrimStart(Tail(k.rest))) IN
       IF ~v.ok \/ v.rest = <<>> THEN NoParse
       ELSE LET o == SetMember(obj, k.val, v.val) IN
            IF Head(v.rest) = "}"
            THEN [ok |-> TRUE, val |-> o, rest |-> TrimStart(Tail(v.rest))]
            ELSE IF Head(v.rest) = ","
            THEN ParseMembers(TrimStart(Tail(v.rest)), o)
            ELSE NoParse

JSONparse(text) ==
  LET toks == Trim(text) IN
  IF toks = <<"null">> THEN Return(Null)
  ELSE IF toks # <<>> /\ Head(toks) = "{"
  THEN LET body == TrimStart(Tail(toks))
           r == IF body # <<>> /\ Head(body) = "}"
                THEN [ok |-> TRUE, val |-> EmptyObject, rest |-> TrimStart(Tail(body))]
                ELSE ParseMembers(body, EmptyObject)
       IN IF r.ok /\ r.rest = <<>> THEN Return(r.val) ELSE Throw("SyntaxError")
  ELSE Throw("SyntaxError")

----------------------------------------------------------------------------
(* Generation gateway (src/services/geminiService.ts).  The provider is a  *)
(* black box: each call either throws or resolves with a response drawn    *)
(* from the sets below; the gateway functions are what runs after the      *)
(* await on the provider.                                                  *)

ProviderThrows == [t |-> "throw"]

TextFailedMsg == "Failed to generate video details from AI."
ImageFailedMsg == "Failed to generate thumbnail from AI."
NoImagesMsg == "No thumbnail was generated."
EditRefusedMsg == "The AI did not return an image. It may have refused the request."
EditFailedMsg == "Failed to edit image with AI."

\* `data:${mimeType};base64,${bytes}`
DataUrl(mimeType, bytes) == <<"data", ":">> \o mimeType \o <<";", "base64", ",">> \o bytes

Jpeg == <<"image", "/", "jpeg">>
Png == <<"image", "/", "png">>

Title1 == <<"Top", " ", "Cam">>
Desc1 == <<"Watch", " ", "now">>

\* response.text of the text model
Payloads ==
  { <<" ", "{", Quote, "seoTitle", Quote, ":", " ", Quote>> \o Title1 \o
      <<Quote, ",", Quote, "description", Quote, ":", Quote>> \o Desc1 \o <<Quote, "}", "\n">>,
    <<"{", Quote, "seoTitle", Quote, ":", Quote>> \o Title1 \o <<Quote, " ", "}">>,
    <<"null">>,
    <<"{", Quote, "seoTitle", Quote, ":", Quote, "Top", "\n", "Cam", Quote, "}">>,
    <<"Sorry", ",", " ", "no">> }

TextResponses ==
  {ProviderThrows} \cup {[t |-> "response", text |-> Str(p)] : p \in Payloads}
    \cup {[t |-> "response", text |-> Undefined]}

\* generateTextContent, lines 27-34: what follows the provider call
generateTextContent(resp) ==
  LET body == IF resp.t = "throw" THEN Throw("provider error")
              ELSE IF resp.text.t # "string" THEN Throw("TypeError")
              ELSE JSONparse(Trim(resp.text.s))
  IN IF body.ok THEN body ELSE Throw(TextFailedMsg)

Array(items) == [t |-> "array", items |-> items]

ImageBytes == { <<"IMG1">> }

ImageResponses ==
  {ProviderThrows, [t |-> "response", generatedImages |-> Undefined],
   [t |-> "response", generatedImages |-> Array(<<>>)]}
    \cup {[t |-> "response", generatedImages |-> Array(<<[imageBytes |-> b]>>)] : b \in ImageBytes}

\* generateImageFromText, lines 50-59
generateImageFromText(resp) ==
  LET body == IF resp.t = "throw" THEN Throw("provider error")
              ELSE IF resp.generatedImages.t = "array" /\ Len(resp.generatedImages.items) > 0
              THEN Return(<<"data", ":", "image", "/", "jpeg", ";", "base64", ",">>
                            \o resp.generatedImages.items[1].imageBytes)
              ELSE Throw(NoImagesMsg)
  IN IF body.ok THEN body ELSE Throw(ImageFailedMsg)

TextPart == [inlineData |-> Undefined]
ImagePart(mimeType, data) ==
  [inlineData |-> [t |-> "object", mimeType |-> mimeType, data |-> data]]

\* response.candidates[0].content.parts of the image model
PartLists ==
  { <<>>,
    <<TextPart>>,
    <<TextPart, ImagePart(Png, <<"EDT1">>), ImagePart(Jpeg, <<"EDT2">>)>> }

EditResponses ==
  {ProviderThrows, [t |-> "response", candidates |-> Undefined]}
    \cup {[t |-> "response", candidates |-> Array(<<[content |-> [parts |-> ps]]>>)] : ps \in PartLists}

\* mutant: the loop keeps the last part that carries an image
FirstInlineData_TakesLast(parts) ==
  LET imgs == {i \in 1..Len(parts) : parts[i].inlineData.t # "undefined"}
  IN IF imgs = {} THEN Throw(EditRefusedMsg)
     ELSE LET i == CHOOSE k \in imgs : \A j \in imgs : j <= k
          IN Return(DataUrl(parts[i].inlineData.mimeType, parts[i].inlineData.data))

\* the for loop of editImage, lines 82-89
RECURSIVE FirstInlineData(_)
FirstInlineData(parts) ==
  IF parts = <<>> THEN Throw(EditRefusedMsg)
  ELSE IF Head(parts).inlineData.t # "undefined"
  THEN Return(DataUrl(Head(parts).inlineData.mimeType, Head(parts).inlineData.data))
  ELSE FirstInlineData(Tail(parts))

\* editImage, lines 82-94
editImage(resp) ==
  LET body == IF resp.t = "throw" THEN Throw("provider error")
              ELSE IF resp.candidates.t # "array" THEN Throw("TypeError")
              ELSE FirstInlineData(resp.candidates.items[1].content.parts)
  IN IF body.ok THEN body ELSE Throw(EditFailedMsg)

\* the responses the provider may give to a pending call, and the gateway's outcome
ResponsesTo(fn) ==
  IF fn = "generateTextContent" THEN TextResponses
  ELSE IF fn = "generateImageFromText" THEN ImageResponses
  ELSE EditResponses

Outcome(fn, resp) ==
  IF fn = "generateTextContent" THEN generateTextContent(resp)
  ELSE IF fn = "generateImageFromText" THEN generateImageFromText(resp)
  ELSE editImage(resp)

----------------------------------------------------------------------------
(* Workflow orchestrator (src/App.tsx): the component's state *)

VARIABLES
  videoIdea, generatedContent, thumbnailUrl,
  userImage, thumbnailStyle, thumbnailPrompt, editPrompt,
  isLoading, isTextLoading, isThumbnailLoading, error,
  \* the handler invocations suspended on an await, in the order they started:
  \* each holds the gateway function it awaits (fn) and the values of its closure
  \* that it reads after the await; issued, isolated and superseded are history
  \* (the gateway functions it has called, whether no other of the three
  \* generating handlers was in flight or invoked while it ran, and whether
  \* another operation has started after it)
  inflight,
  \* history: the last step taken: what ran, the gateway call it issued (with
  \* its arguments) or the outcome it received; "input" after a field edit
  ev

state == <<videoIdea, generatedContent, thumbnailUrl, userImage, thumbnailStyle,
           thumbnailPrompt, editPrompt, isLoading, isTextLoading,
           isThumbnailLoading, error>>
vars == <<state, inflight, ev>>

THUMBNAIL_STYLES ==
  <<"Cinematic", "Vibrant", "Minimalist", "Futuristic", "Retro", "Bold & Graphic">>
Styles == {THUMBNAIL_STYLES[i] : i \in 1..NumStyles}

\* what the user may type or pick
Ideas == { <<>>, <<" ", "\n">>, <<" ", "cam">> }
UserPrompts == { <<" ">>, <<"a", " ", "cat">> }
EditPrompts == { <<>>, <<"add", " ", "bolt">> }
Files == { [name |-> <<"me.png">>, type |-> Png, bytes |-> <<"SRC1">>] }

IdeaMissingMsg == "Please enter a video idea first."
PromptEmptyMsg == "Thumbnail prompt cannot be empty."
EditEmptyMsg == "Edit prompt cannot be empty."
NoThumbnailMsg == "Generate a thumbnail first before editing."
UnknownErrorMsg == "An unknown error occurred. Please try again."
NullTitleMsg == "Cannot read properties of null (reading 'seoTitle')"

Init ==
  /\ videoIdea = <<>>
  /\ generatedContent = Null
  /\ thumbnailUrl = <<>>
  /\ userImage = Null
  /\ thumbnailStyle = "Cinematic"
  /\ thumbnailPrompt = <<>>
  /\ editPrompt = <<>>
  /\ isLoading = FALSE
  /\ isTextLoading = FALSE
  /\ isThumbnailLoading = FALSE
  /\ error = ""
  /\ inflight = <<>>
  /\ ev = [step |-> "init"]

Slots == 1..MaxInFlight
SlotsInUse == {inflight[i].slot : i \in 1..Len(inflight)}
FreeSlot == CHOOSE s \in Slots : s \notin SlotsInUse /\ \A r \in Slots : r < s => r \in SlotsInUse
OpAt(s) == inflight[CHOOSE i \in 1..Len(inflight) : inflight[i].slot = s]
Without(s) == SelectSeq(inflight, LAMBDA o : o.slot # s)
Replace(s, op) == [i \in 1..Len(inflight) |-> IF inflight[i].slot = s THEN op ELSE inflight[i]]
\* history: a handler invoked meanwhile ends the isolation of every operation in flight
Overlapped == [i \in 1..Len(inflight) |-> [inflight[i] EXCEPT !.isolated = FALSE]]
\* history: an operation that starts is the most recently started one, and
\* every operation in flight has been followed by a later one
Superseded ==
  [i \in 1..Len(inflight) |-> [inflight[i] EXCEPT !.isolated = FALSE, !.superseded = TRUE]]

\* handleError, lines 128-131: a thrown Error carries a message
handleError(err) == IF "message" \in DOMAIN err THEN err.message ELSE UnknownErrorMsg

----------------------------------------------------------------------------
(* Field edits and the image upload *)

\* onChange of the idea textarea, line 202
SetVideoIdea(s) ==
  /\ videoIdea' = s
  /\ ev' = [step |-> "input"]
  /\ UNCHANGED <<generatedContent, thumbnailUrl, userImage, thumbnailStyle, thumbnailPrompt,
                 editPrompt, isLoading, isTextLoading, isThumbnailLoading, error, inflight>>

\* onChange of the style selector, line 219
SetThumbnailStyle(st) ==
  /\ thumbnailStyle' = st
  /\ ev' = [step |-> "input"]
  /\ UNCHANGED <<videoIdea, generatedContent, thumbnailUrl, userImage, thumbnailPrompt,
                 editPrompt, isLoading, isTextLoading, isThumbnailLoading, error, inflight>>

\* handleFileChange, lines 141-152: reader.onload for the chosen file f
handleFileChange(f) ==
  LET result == DataUrl(f.type, f.bytes)
      base64Data == Split(result, ",")[2]
  IN /\ userImage' = [t |-> "object", data |-> base64Data, mimeType |-> f.type, name |-> f.name]
     /\ ev' = [step |-> "input"]
     /\ UNCHANGED <<videoIdea, generatedContent, thumbnailUrl, thumbnailStyle, thumbnailPrompt,
                    editPrompt, isLoading, isTextLoading, isThumbnailLoading, error, inflight>>

\* the (Remove) button, line 213
RemoveUserImage ==
  /\ userImage' = Null
  /\ ev' = [step |-> "input"]
  /\ UNCHANGED <<videoIdea, generatedContent, thumbnailUrl, thumbnailStyle, thumbnailPrompt,
                 editPrompt, isLoading, isTextLoading, isThumbnailLoading, error, inflight>>

\* onChange of the prompt textarea, line 257
SetThumbnailPrompt(s) ==
  /\ thumbnailPrompt' = s
  /\ ev' = [step |-> "input"]
  /\ UNCHANGED <<videoIdea, generatedContent, thumbnailUrl, userImage, thumbnailStyle,
                 editPrompt, isLoading, isTextLoading, isThumbnailLoading, error, inflight>>

\* onChange of the quick-edit input, line 266
SetEditPrompt(s) ==
  /\ editPrompt' = s
  /\ ev' = [step |-> "input"]
  /\ UNCHANGED <<videoIdea, generatedContent, thumbnailUrl, userImage, thumbnailStyle,
                 thumbnailPrompt, isLoading, isTextLoading, isThumbnailLoading, error, inflight>>

----------------------------------------------------------------------------
(* handleGenerateAll, lines 27-69 *)

\* line 48
StyleInstruction(style) ==
  <<"Style: ", style,
    ", ultra-realistic, professional, high-contrast, eye-catching. IMPORTANT: ",
    "Do NOT include any text", ", logos, or watermarks.">>

\* lines 49-51
FinalThumbnailPrompt(image, seoTitle, style) ==
  IF image.t # "null"
  THEN <<"Incorporate the subject from the provided image into a new scene for a YouTube thumbnail about ",
         Quote>> \o ToStr(seoTitle) \o <<Quote, ".", " ">> \o StyleInstruction(style)
  ELSE <<"Create a YouTube thumbnail for a video titled ", Quote>>
         \o ToStr(seoTitle) \o <<Quote, ".", " ">> \o StyleInstruction(style)

\* mutant: the uploaded image is ignored
ImageCall_IgnoresUpload(image, prompt) ==
  [fn |-> "generateImageFromText", prompt |-> prompt]

\* lines 56-58 and 81-83: the image call chosen by the presence of an uploaded image
ImageCall(image, prompt) ==
  IF image.t # "null"
  THEN [fn |-> "editImage", base64ImageData |-> image.data, mimeType |-> image.mimeType,
        prompt |-> prompt]
  ELSE [fn |-> "generateImageFromText", prompt |-> prompt]

\* mutant: the idea is tested without trimming it
IdeaMissing_Untrimmed == videoIdea = <<>>

\* line 28
IdeaMissing == Trim(videoIdea) = <<>>

\* lines 28-31
GenerateAllRejected ==
  /\ IdeaMissing
  /\ error' = IdeaMissingMsg
  /\ inflight' = Overlapped
  /\ ev' = [step |-> "rejected", kind |-> "GenerateAll"]
  /\ UNCHANGED <<videoIdea, generatedContent, thumbnailUrl, userImage, thumbnailStyle,
                 thumbnailPrompt, editPrompt, isLoading, isTextLoading, isThumbnailLoading>>

\* mutant: starting a GenerateAll also empties the thumbnail prompt
GenerateAllStarted_ClearsPrompt ==
  /\ ~IdeaMissing
  /\ Len(inflight) < MaxInFlight
  /\ isLoading' = TRUE
  /\ isTextLoading' = TRUE
  /\ isThumbnailLoading' = TRUE
  /\ error' = ""
  /\ generatedContent' = Null
  /\ thumbnailUrl' = <<>>
  /\ thumbnailPrompt' = <<>>
  /\ inflight' = Append(Superseded,
       [slot |-> FreeSlot, kind |-> "GenerateAll", pc |-> "text",
        thumbnailStyle |-> thumbnailStyle, userImage |-> userImage,
        fn |-> "generateTextContent", issued |-> <<"generateTextContent">>,
        isolated |-> (inflight = <<>>), superseded |-> FALSE])
  /\ ev' = [step |-> "started", kind |-> "GenerateAll", slot |-> FreeSlot,
            call |-> [fn |-> "generateTextContent", title |-> videoIdea]]
  /\ UNCHANGED <<videoIdea, userImage, thumbnailStyle, editPrompt>>

\* lines 33-43, up to the await on generateTextContent(videoIdea)
GenerateAllStarted ==
  /\ ~IdeaMissing
  /\ Len(inflight) < MaxInFlight
  /\ isLoading' = TRUE
  /\ isTextLoading' = TRUE
  /\ isThumbnailLoading' = TRUE
  /\ error' = ""
  /\ generatedContent' = Null
  /\ thumbnailUrl' = <<>>
  /\ inflight' = Append(Superseded,
       [slot |-> FreeSlot, kind |-> "GenerateAll", pc |-> "text",
        thumbnailStyle |-> thumbnailStyle, userImage |-> userImage,
        fn |-> "generateTextContent", issued |-> <<"generateTextContent">>,
        isolated |-> (inflight = <<>>), superseded |-> FALSE])
  /\ ev' = [step |-> "started", kind |-> "GenerateAll", slot |-> FreeSlot,
            call |-> [fn |-> "generateTextContent", title |-> videoIdea]]
  /\ UNCHANGED <<videoIdea, userImage, thumbnailStyle, thumbnailPrompt, editPrompt>>

handleGenerateAll == GenerateAllRejected \/ GenerateAllStarted

\* mutant: the finally block forgets the overall flag
GenerateAllFinally_KeepsLoading ==
  /\ isThumbnailLoading' = FALSE
  /\ isLoading' = isLoading

\* lines 65-68: the finally block
GenerateAllFinally ==
  /\ isThumbnailLoading' = FALSE
  /\ isLoading' = FALSE

AwaitsText(s) ==
  /\ s \in SlotsInUse
  /\ OpAt(s).kind = "GenerateAll"
  /\ OpAt(s).pc = "text"

\* history: an operation reached its last step: what it awaited (fn), what the
\* provider answered (resp) and what the gateway made of it (outcome)
Finished(op, how, resp, r) ==
  [step |-> "finished", kind |-> op.kind, slot |-> op.slot, how |-> how,
   issued |-> op.issued, fn |-> op.fn, resp |-> resp, outcome |-> r,
   isolated |-> op.isolated, superseded |-> op.superseded]

\* mutant: the catch block swallows the text failure and goes on to the image call
GenerateAllTextRejected_DrawsAnyway(s, resp) ==
  /\ AwaitsText(s)
  /\ LET op == OpAt(s)
         r == generateTextContent(resp)
         call == ImageCall(op.userImage, thumbnailPrompt)
     IN /\ ~r.ok
        /\ error' = handleError(r)
        /\ isTextLoading' = FALSE
        /\ inflight' = Replace(s,
             [slot |-> s, kind |-> "GenerateAll", pc |-> "image", fn |-> call.fn,
              issued |-> Append(op.issued, call.fn), isolated |-> op.isolated,
                    superseded |-> op.superseded])
        /\ ev' = [step |-> "textRejected", kind |-> "GenerateAll", slot |-> s, call |-> call]
  /\ UNCHANGED <<videoIdea, generatedContent, thumbnailUrl, userImage, thumbnailStyle,
                 thumbnailPrompt, editPrompt, isLoading, isThumbnailLoading>>

\* generateTextContent threw: lines 62-68
GenerateAllTextRejected(s, resp) ==
  /\ AwaitsText(s)
  /\ LET op == OpAt(s)
         r == generateTextContent(resp)
     IN /\ ~r.ok
        /\ error' = handleError(r)
        /\ isTextLoading' = FALSE
        /\ GenerateAllFinally
        /\ inflight' = Without(s)
        /\ ev' = Finished(op, "textRejected", resp, r)
  /\ UNCHANGED <<videoIdea, generatedContent, thumbnailUrl, userImage, thumbnailStyle,
                 thumbnailPrompt, editPrompt>>

\* generateTextContent resolved with null: lines 44-45, then reading
\* textContent.seoTitle (line 50 or 51) throws a TypeError: lines 62-68
GenerateAllTitleUnreadable(s, resp) ==
  /\ AwaitsText(s)
  /\ LET op == OpAt(s)
         r == generateTextContent(resp)
     IN /\ r.ok
        /\ r.value.t = "null"
        /\ generatedContent' = r.value
        /\ error' = handleError(Throw(NullTitleMsg))
        /\ isTextLoading' = FALSE
        /\ GenerateAllFinally
        /\ inflight' = Without(s)
        /\ ev' = Finished(op, "titleUnreadable", resp, r)
  /\ UNCHANGED <<videoIdea, thumbnailUrl, userImage, thumbnailStyle, thumbnailPrompt,
                 editPrompt>>

\* mutant: the image call is chosen by the image uploaded when the text returns
GenerateAllTextResolved_ReadsLiveImage(s, resp) ==
  /\ AwaitsText(s)
  /\ LET op == OpAt(s)
         r == generateTextContent(resp)
     IN /\ r.ok
        /\ r.value.t = "object"
        /\ LET finalThumbnailPrompt ==
                 FinalThumbnailPrompt(op.userImage, r.value.seoTitle, op.thumbnailStyle)
               call == ImageCall(userImage, finalThumbnailPrompt)
           IN /\ generatedContent' = r.value
              /\ isTextLoading' = FALSE
              /\ thumbnailPrompt' = finalThumbnailPrompt
              /\ inflight' = Replace(s,
                   [slot |-> s, kind |-> "GenerateAll", pc |-> "image", fn |-> call.fn,
                    issued |-> Append(op.issued, call.fn), isolated |-> op.isolated,
                    superseded |-> op.superseded])
              /\ ev' = [step |-> "textResolved", kind |-> "GenerateAll", slot |-> s,
                        call |-> call]
  /\ UNCHANGED <<videoIdea, thumbnailUrl, userImage, thumbnailStyle, editPrompt, isLoading,
                 isThumbnailLoading, error>>

\* generateTextContent resolved with an object: lines 44-58, up to the await
\* on the image call
GenerateAllTextResolved(s, resp) ==
  /\ AwaitsText(s)
  /\ LET op == OpAt(s)
         r == generateTextContent(resp)
     IN /\ r.ok
        /\ r.value.t = "object"
        /\ LET finalThumbnailPrompt ==
                 FinalThumbnailPrompt(op.userImage, r.value.seoTitle, op.thumbnailStyle)
               call == ImageCall(op.userImage, finalThumbnailPrompt)
           IN /\ generatedContent' = r.value
              /\ isTextLoading' = FALSE
              /\ thumbnailPrompt' = finalThumbnailPrompt
              /\ inflight' = Replace(s,
                   [slot |-> s, kind |-> "GenerateAll", pc |-> "image", fn |-> call.fn,
                    issued |-> Append(op.issued, call.fn), isolated |-> op.isolated,
                    superseded |-> op.superseded])
              /\ ev' = [step |-> "textResolved", kind |-> "GenerateAll", slot |-> s,
                        call |-> call]
  /\ UNCHANGED <<videoIdea, thumbnailUrl, userImage, thumbnailStyle, editPrompt, isLoading,
                 isThumbnailLoading, error>>

AwaitsImage(s, kind) ==
  /\ s \in SlotsInUse
  /\ OpAt(s).kind = kind
  /\ OpAt(s).pc = "image"

\* the image call of GenerateAll resolved: lines 60 and 65-68
GenerateAllImageResolved(s, resp) ==
  /\ AwaitsImage(s, "GenerateAll")
  /\ LET op == OpAt(s)
         r == Outcome(op.fn, resp)
     IN /\ r.ok
        /\ thumbnailUrl' = r.value
        /\ GenerateAllFinally
        /\ inflight' = Without(s)
        /\ ev' = Finished(op, "resolved", resp, r)
  /\ UNCHANGED <<videoIdea, generatedContent, userImage, thumbnailStyle, thumbnailPrompt,
                 editPrompt, isTextLoading, error>>

\* the image call of GenerateAll threw: lines 62-68
GenerateAllImageRejected(s, resp) ==
  /\ AwaitsImage(s, "GenerateAll")
  /\ LET op == OpAt(s)
         r == Outcome(op.fn, resp)
     IN /\ ~r.ok
        /\ error' = handleError(r)
        /\ isTextLoading' = FALSE
        /\ GenerateAllFinally
        /\ inflight' = Without(s)
        /\ ev' = Finished(op, "imageRejected", resp, r)
  /\ UNCHANGED <<videoIdea, generatedContent, thumbnailUrl, userImage, thumbnailStyle,
                 thumbnailPrompt, editPrompt>>

----------------------------------------------------------------------------
(* handleRegenerateThumbnail, lines 71-90 *)

\* line 72
PromptMissing == Trim(thumbnailPrompt) = <<>>

\* lines 72-75
RegenerateRejected ==
  /\ PromptMissing
  /\ error' = PromptEmptyMsg
  /\ inflight' = Overlapped
  /\ ev' = [step |-> "rejected", kind |-> "RegenerateThumbnail"]
  /\ UNCHANGED <<videoIdea, generatedContent, thumbnailUrl, userImage, thumbnailStyle,
                 thumbnailPrompt, editPrompt, isLoading, isTextLoading, isThumbnailLoading>>

\* mutant: the quick-edit instruction is left in its field
RegenerateStarted_KeepsEditPrompt ==
  /\ ~PromptMissing
  /\ Len(inflight) < MaxInFlight
  /\ isThumbnailLoading' = TRUE
  /\ error' = ""
  /\ LET call == ImageCall(userImage, thumbnailPrompt)
     IN /\ inflight' = Append(Superseded,
          [slot |-> FreeSlot, kind |-> "RegenerateThumbnail", pc |-> "image",
           fn |-> call.fn, issued |-> <<call.fn>>, isolated |-> (inflight = <<>>),
           superseded |-> FALSE])
     /\ ev' = [step |-> "started", kind |-> "RegenerateThumbnail", slot |-> FreeSlot,
               call |-> call]
  /\ UNCHANGED <<videoIdea, generatedContent, thumbnailUrl, userImage, thumbnailStyle,
                 thumbnailPrompt, editPrompt, isLoading, isTextLoading>>

\* lines 76-83, up to the await on the image call
RegenerateStarted ==
  /\ ~PromptMissing
  /\ Len(inflight) < MaxInFlight
  /\ isThumbnailLoading' = TRUE
  /\ error' = ""
  /\ editPrompt' = <<>>
  /\ LET call == ImageCall(userImage, thumbnailPrompt)
     IN /\ inflight' = Append(Superseded,
          [slot |-> FreeSlot, kind |-> "RegenerateThumbnail", pc |-> "image",
           fn |-> call.fn, issued |-> <<call.fn>>, isolated |-> (inflight = <<>>),
           superseded |-> FALSE])
     /\ ev' = [step |-> "started", kind |-> "RegenerateThumbnail", slot |-> FreeSlot,
               call |-> call]
  /\ UNCHANGED <<videoIdea, generatedContent, thumbnailUrl, userImage, thumbnailStyle,
                 thumbnailPrompt, isLoading, isTextLoading>>

handleRegenerateThumbnail == RegenerateRejected \/ RegenerateStarted

\* lines 84 and 87-89
RegenerateResolved(s, resp) ==
  /\ AwaitsImage(s, "RegenerateThumbnail")
  /\ LET op == OpAt(s)
         r == Outcome(op.fn, resp)
     IN /\ r.ok
        /\ thumbnailUrl' = r.value
        /\ isThumbnailLoading' = FALSE
        /\ inflight' = Without(s)
        /\ ev' = Finished(op, "resolved", resp, r)
  /\ UNCHANGED <<videoIdea, generatedContent, userImage, thumbnailStyle, thumbnailPrompt,
                 editPrompt, isLoading, isTextLoading, error>>

\* lines 85-89
RegenerateFailed(s, resp) ==
  /\ AwaitsImage(s, "RegenerateThumbnail")
  /\ LET op == OpAt(s)
         r == Outcome(op.fn, resp)
     IN /\ ~r.ok
        /\ error' = handleError(r)
        /\ isThumbnailLoading' = FALSE
        /\ inflight' = Without(s)
        /\ ev' = Finished(op, "imageRejected", resp, r)
  /\ UNCHANGED <<videoIdea, generatedContent, thumbnailUrl, userImage, thumbnailStyle,
                 thumbnailPrompt, editPrompt, isLoading, isTextLoading>>

----------------------------------------------------------------------------
(* handleEditThumbnail, lines 92-114 *)

UndefinedSplitMsg == "Cannot read properties of undefined (reading 'split')"

\* mutant: the mime type keeps the encoding suffix of the data URL
DecodeThumbnail_KeepsEncoding(url) ==
  LET parts == Split(url, ",")
      meta == parts[1]
      base64Data == IF Len(parts) >= 2 THEN parts[2] ELSE Undefined
      afterColon == Split(meta, ":")
  IN IF Len(afterColon) < 2 THEN Throw(UndefinedSplitMsg)
     ELSE Return([base64Data |-> base64Data, mimeType |-> afterColon[2]])

\* lines 105-106: the data URL taken apart
DecodeThumbnail(url) ==
  LET parts == Split(url, ",")
      meta == parts[1]
      base64Data == IF Len(parts) >= 2 THEN parts[2] ELSE Undefined
      afterColon == Split(meta, ":")
  IN IF Len(afterColon) < 2 THEN Throw(UndefinedSplitMsg)
     ELSE Return([base64Data |-> base64Data, mimeType |-> Split(afterColon[2], ";")[1]])

\* line 93
EditPromptMissing == Trim(editPrompt) = <<>>
\* mutant: the check for an existing thumbnail is dropped
ThumbnailMissing_Unchecked == FALSE

\* line 97
ThumbnailMissing == thumbnailUrl = <<>>

\* lines 93-96
EditRejectedNoPrompt ==
  /\ EditPromptMissing
  /\ error' = EditEmptyMsg
  /\ inflight' = Overlapped
  /\ ev' = [step |-> "rejected", kind |-> "EditThumbnail"]
  /\ UNCHANGED <<videoIdea, generatedContent, thumbnailUrl, userImage, thumbnailStyle,
                 thumbnailPrompt, editPrompt, isLoading, isTextLoading, isThumbnailLoading>>

\* lines 97-100
EditRejectedNoThumbnail ==
  /\ ~EditPromptMissing
  /\ ThumbnailMissing
  /\ error' = NoThumbnailMsg
  /\ inflight' = Overlapped
  /\ ev' = [step |-> "rejected", kind |-> "EditThumbnail"]
  /\ UNCHANGED <<videoIdea, generatedContent, thumbnailUrl, userImage, thumbnailStyle,
                 thumbnailPrompt, editPrompt, isLoading, isTextLoading, isThumbnailLoading>>

\* lines 101-107, up to the await on editImage; a thumbnail that cannot be
\* taken apart throws inside the try, lines 109-113
EditStarted ==
  /\ ~EditPromptMissing
  /\ ~ThumbnailMissing
  /\ Len(inflight) < MaxInFlight
  /\ LET d == DecodeThumbnail(thumbnailUrl)
     IN IF d.ok
        THEN /\ isThumbnailLoading' = TRUE
             /\ error' = ""
             /\ inflight' = Append(Superseded,
                  [slot |-> FreeSlot, kind |-> "EditThumbnail", pc |-> "image",
                   fn |-> "editImage", issued |-> <<"editImage">>,
                   isolated |-> (inflight = <<>>), superseded |-> FALSE])
             /\ ev' = [step |-> "started", kind |-> "EditThumbnail", slot |-> FreeSlot,
                       call |-> [fn |-> "editImage", base64ImageData |-> d.value.base64Data,
                                 mimeType |-> d.value.mimeType, prompt |-> editPrompt]]
        ELSE /\ isThumbnailLoading' = FALSE
             /\ error' = handleError(d)
             /\ inflight' = Overlapped
             /\ ev' = [step |-> "rejected", kind |-> "EditThumbnail"]
  /\ UNCHANGED <<videoIdea, generatedContent, thumbnailUrl, userImage, thumbnailStyle,
                 thumbnailPrompt, editPrompt, isLoading, isTextLoading>>

handleEditThumbnail == EditRejectedNoPrompt \/ EditRejectedNoThumbnail \/ EditStarted

\* lines 108 and 111-113
EditResolved(s, resp) ==
  /\ AwaitsImage(s, "EditThumbnail")
  /\ LET op == OpAt(s)
         r == Outcome(op.fn, resp)
     IN /\ r.ok
        /\ thumbnailUrl' = r.value
        /\ isThumbnailLoading' = FALSE
        /\ inflight' = Without(s)
        /\ ev' = Finished(op, "resolved", resp, r)
  /\ UNCHANGED <<videoIdea, generatedContent, userImage, thumbnailStyle, thumbnailPrompt,
                 editPrompt, isLoading, isTextLoading, error>>

\* lines 109-113
EditFailed(s, resp) ==
  /\ AwaitsImage(s, "EditThumbnail")
  /\ LET op == OpAt(s)
         r == Outcome(op.fn, resp)
     IN /\ ~r.ok
        /\ error' = handleError(r)
        /\ isThumbnailLoading' = FALSE
        /\ inflight' = Without(s)
        /\ ev' = Finished(op, "imageRejected", resp, r)
  /\ UNCHANGED <<videoIdea, generatedContent, thumbnailUrl, userImage, thumbnailStyle,
                 thumbnailPrompt, editPrompt, isLoading, isTextLoading>>

----------------------------------------------------------------------------
(* handleDownloadThumbnail, lines 116-126 *)

\* mutant: the whole mime type is used as the extension
DownloadExtension_WholeMime(url) ==
  LET afterColon == Split(url, ":")
      mimeType == IF Len(afterColon) >= 2 THEN Str(Split(afterColon[2], ";")[1]) ELSE Undefined
  IN IF mimeType.t = "string" /\ mimeType.s # <<>> THEN mimeType.s ELSE <<"jpeg">>

\* lines 120-121: the extension of the downloaded file
DownloadExtension(url) ==
  LET afterColon == Split(url, ":")
      mimeType == IF Len(afterColon) >= 2 THEN Str(Split(afterColon[2], ";")[1]) ELSE Undefined
      subtype == IF mimeType.t = "string" /\ Len(Split(mimeType.s, "/")) >= 2
                 THEN Split(mimeType.s, "/")[2]
                 ELSE <<>>
  IN IF subtype # <<>> THEN subtype ELSE <<"jpeg">>

\* line 117
DownloadNothing ==
  /\ thumbnailUrl = <<>>
  /\ ev' = [step |-> "download", saved |-> FALSE]
  /\ UNCHANGED <<state, inflight>>

\* lines 118-125; the Date.now() of the file name is the token "<now>"
DownloadSaved ==
  /\ thumbnailUrl # <<>>
  /\ ev' = [step |-> "download", saved |-> TRUE, href |-> thumbnailUrl,
            download |-> <<"dekhao-thumbnail-", "<now>", ".">> \o DownloadExtension(thumbnailUrl)]
  /\ UNCHANGED <<state, inflight>>

handleDownloadThumbnail == DownloadNothing \/ DownloadSaved

----------------------------------------------------------------------------
(* The gateway call of an operation in flight settles *)

Settle(s, resp) ==
  \/ GenerateAllTextRejected(s, resp)
  \/ GenerateAllTitleUnreadable(s, resp)
  \/ GenerateAllTextResolved(s, resp)
  \/ GenerateAllImageResolved(s, resp)
  \/ GenerateAllImageRejected(s, resp)
  \/ RegenerateResolved(s, resp)
  \/ RegenerateFailed(s, resp)
  \/ EditResolved(s, resp)
  \/ EditFailed(s, resp)

Settles(s) ==
  /\ s \in SlotsInUse
  /\ \E resp \in ResponsesTo(OpAt(s).fn) : Settle(s, resp)

----------------------------------------------------------------------------
(* The page: the handlers behind the controls the view renders *)

\* mutant: the Generate All button is never disabled
GenerateAllEnabled_Always == TRUE

\* line 226: the Generate All button is disabled while isLoading
GenerateAllEnabled == ~isLoading
\* line 251: the refine panel (prompt editor, Go, quick edit, Edit, Download)
RefinePanelShown == thumbnailUrl # <<>> /\ ~isThumbnailLoading
\* line 213: the (Remove) button
RemoveShown == userImage # Null

\* the steps the page can take when the user types and picks from the given sets
Page(ideas, styles, files, prompts, edits) ==
  \/ \E s \in ideas : SetVideoIdea(s)
  \/ \E st \in styles : SetThumbnailStyle(st)
  \/ \E f \in files : handleFileChange(f)
  \/ RemoveShown /\ RemoveUserImage
  \/ RefinePanelShown /\ \E s \in prompts : SetThumbnailPrompt(s)
  \/ RefinePanelShown /\ \E s \in edits : SetEditPrompt(s)
  \/ GenerateAllEnabled /\ handleGenerateAll
  \/ RefinePanelShown /\ handleRegenerateThumbnail
  \/ RefinePanelShown /\ handleEditThumbnail
  \/ RefinePanelShown /\ handleDownloadThumbnail
  \/ \E s \in Slots : Settles(s)

Next == Page(Ideas, Styles, Files, UserPrompts, EditPrompts)

Spec == Init /\ [][Next]_vars

\* The page with one idea, one style and one prompt of each kind to type, under
\* the assumption that every gateway call in flight eventually settles.
NextFair == Page({<<" ", "cam">>}, {"Cinematic"}, Files, {<<" ">>}, {<<"add", " ", "bolt">>})

FairSpec == Init /\ [][NextFair]_vars /\ \A s \in Slots : WF_vars(Settles(s))

----------------------------------------------------------------------------
(* The orchestrator's operations invoked directly, without the gating of   *)
(* the view: any handler may run in any state.                             *)

Handlers(ideas, styles, files, prompts, edits) ==
  \/ \E s \in ideas : SetVideoIdea(s)
  \/ \E st \in styles : SetThumbnailStyle(st)
  \/ \E f \in files : handleFileChange(f)
  \/ RemoveUserImage
  \/ \E s \in prompts : SetThumbnailPrompt(s)
  \/ \E s \in edits : SetEditPrompt(s)
  \/ handleGenerateAll
  \/ handleRegenerateThumbnail
  \/ handleEditThumbnail
  \/ handleDownloadThumbnail
  \/ \E s \in Slots : Settles(s)

NextHandlers ==
  Handlers({<<" ", "cam">>}, {"Cinematic"}, Files, {<<>>, <<" ">>}, EditPrompts)

SpecHandlers == Init /\ [][NextHandlers]_vars

----------------------------------------------------------------------------
(* The gateway's editImage on its own: the provider answers with any list of  *)
(* at most MaxParts parts, and editImage is applied to the answer.             *)

PartKinds ==
  {TextPart, ImagePart(Png, <<"EDT1">>), ImagePart(Jpeg, <<"EDT2">>), ImagePart(Png, <<"EDT2">>)}
PartSeqs == UNION {[1..n -> PartKinds] : n \in 0..MaxParts}

InitParts ==
  /\ videoIdea = <<>>
  /\ generatedContent = Null
  /\ thumbnailUrl = <<>>
  /\ userImage = Null
  /\ thumbnailStyle = "Cinematic"
  /\ thumbnailPrompt = <<>>
  /\ editPrompt = <<>>
  /\ isLoading = FALSE
  /\ isTextLoading = FALSE
  /\ isThumbnailLoading = FALSE
  /\ error = ""
  /\ inflight = <<>>
  /\ ev \in {[step |-> "answered", fn |-> "editImage",
              resp |-> [t |-> "response",
                        candidates |-> Array(<<[content |-> [parts |-> ps]]>>)]] :
               ps \in PartSeqs}

\* editImage, lines 82-94, runs on the provider's answer
EditImageReturns ==
  /\ ev.step = "answered"
  /\ ev' = [step |-> "returned", fn |-> "editImage", resp |-> ev.resp,
            outcome |-> editImage(ev.resp)]
  /\ UNCHANGED <<state, inflight>>

NextGateway == EditImageReturns

SpecGateway == InitParts /\ [][NextGateway]_vars

----------------------------------------------------------------------------
(* Properties *)

\* the gateway calls in flight
Pending(q) == [i \in 1..Len(q) |-> <<q[i].slot, q[i].kind, q[i].fn>>]
NoneBusy == ~isLoading /\ ~isTextLoading /\ ~isThumbnailLoading
Invoked(kind) == ev'.step \in {"rejected", "started"} /\ ev'.kind = kind
Ended(kind) == ev.step = "finished" /\ ev.kind = kind
NoTextInstruction == <<"Do NOT include any text">>

(* C1: GenerateAll invoked with an empty or whitespace-only idea is rejected:  *)
(* the gateway calls in flight stay as they were (none is issued), the error   *)
(* becomes the validation message, and the three busy flags, the generated     *)
(* text, the thumbnail and the thumbnail prompt are unchanged.                 *)
C1_BlankIdeaRejected ==
  [][ (Invoked("GenerateAll") /\ Trim(videoIdea) = <<>>)
        => /\ ev'.step = "rejected"
           /\ Pending(inflight') = Pending(inflight)
           /\ error' = IdeaMissingMsg
           /\ error' # ""
           /\ UNCHANGED <<isLoading, isTextLoading, isThumbnailLoading,
                          generatedContent, thumbnailUrl, thumbnailPrompt>> ]_vars

\* a whitespace-only idea was rejected while a regeneration was in flight
C1_Witness ==
  /\ ev.step = "rejected"
  /\ ev.kind = "GenerateAll"
  /\ videoIdea = <<" ", "\n">>
  /\ error = IdeaMissingMsg
  /\ Len(inflight) = 1
  /\ isThumbnailLoading
  /\ thumbnailUrl # <<>>

(* C2: when the text call of a GenerateAll fails, that GenerateAll has issued  *)
(* no image call, the error is the text failure message, the thumbnail and the *)
(* generated text are unset, and the three busy flags are false.               *)
C2_TextFailureLeavesNothing ==
  (Ended("GenerateAll") /\ ev.fn = "generateTextContent" /\ ~ev.outcome.ok)
    => /\ ev.issued = <<"generateTextContent">>
       /\ error = TextFailedMsg
       /\ thumbnailUrl = <<>>
       /\ generatedContent = Null
       /\ NoneBusy

(* C3: every operation in flight reaches its last step, whatever the provider  *)
(* answers, provided each gateway call settles; and whenever no operation is   *)
(* in flight the three busy flags are false.                                   *)
C3_OperationsFinish ==
  /\ \A s \in Slots : (s \in SlotsInUse) ~> (ev.step = "finished" /\ ev.slot = s)
  /\ [](inflight = <<>> => NoneBusy)

\* a GenerateAll whose image call failed has finished and nothing is busy
C3_Witness ==
  /\ Ended("GenerateAll")
  /\ ev.how = "imageRejected"
  /\ inflight = <<>>
  /\ NoneBusy

(* C4: isLoading is true whenever a GenerateAll is in flight, and at most one  *)
(* GenerateAll is in flight at any time.                                       *)
C4_OneGenerateAll ==
  LET running == {i \in 1..Len(inflight) : inflight[i].kind = "GenerateAll"}
  IN /\ Cardinality(running) <= 1
     /\ running # {} => isLoading

\* a GenerateAll is in flight next to a regeneration started before it
C4_Witness ==
  /\ Len(inflight) = 2
  /\ inflight[1].kind = "RegenerateThumbnail"
  /\ inflight[2].kind = "GenerateAll"
  /\ isLoading

(* C5: a GenerateAll issues its image call only in the step in which its text  *)
(* call returns successfully: before the step it awaits the text call, after   *)
(* it the result of the text call and the thumbnail prompt sent are stored,    *)
(* and it awaits the image call alone.                                         *)
C5_ImageAfterText ==
  [][ \A s \in Slots :
        LET drawsAfter  == s \in SlotsInUse' /\ OpAt(s)'.kind = "GenerateAll"
                             /\ OpAt(s)'.fn # "generateTextContent"
            drawsBefore == s \in SlotsInUse /\ OpAt(s).kind = "GenerateAll"
                             /\ OpAt(s).fn # "generateTextContent"
        IN (drawsAfter /\ ~drawsBefore)
             => /\ s \in SlotsInUse
                /\ OpAt(s).kind = "GenerateAll"
                /\ OpAt(s).fn = "generateTextContent"
                /\ generatedContent'.t = "object"
                /\ ev'.step = "textResolved"
                /\ ev'.call.prompt = thumbnailPrompt'
                /\ OpAt(s)'.issued = <<"generateTextContent", ev'.call.fn>> ]_vars

\* the text has returned and the image call of the same GenerateAll is in flight
C5_Witness ==
  /\ ev.step = "textResolved"
  /\ generatedContent.t = "object"
  /\ thumbnailPrompt = ev.call.prompt
  /\ OpAt(ev.slot).fn = "editImage"
  /\ ~isTextLoading

NonEmptyString(v) == v.t = "string" /\ v.s # <<>>

(* C6: a GenerateAll ends with generated text whose seoTitle and description   *)
(* are both non-empty strings, or with an error and no generated text.         *)
C6_TextCompleteOrError ==
  Ended("GenerateAll")
    => \/ /\ generatedContent.t = "object"
          /\ NonEmptyString(generatedContent.seoTitle)
          /\ NonEmptyString(generatedContent.description)
       \/ /\ error # ""
          /\ generatedContent = Null

(* C7: in a GenerateAll the image call is editImage on the image captured at   *)
(* invocation when there is one and generateImageFromText otherwise, with the  *)
(* stored thumbnail prompt; after a GenerateAll that ran in isolation and      *)
(* whose two calls succeeded, the prompt contains the generated seoTitle and   *)
(* the no-text instruction, the thumbnail is the result of the image call, no  *)
(* flag is busy and the error is empty.                                        *)
C7_SuccessfulGenerateAll ==
  [][ /\ (ev'.step = "textResolved" /\ AwaitsText(ev'.slot))
           => LET image == OpAt(ev'.slot).userImage
              IN /\ ev'.call.prompt = thumbnailPrompt'
                 /\ IF image = Null
                    THEN ev'.call.fn = "generateImageFromText"
                    ELSE /\ ev'.call.fn = "editImage"
                         /\ ev'.call.base64ImageData = image.data
                         /\ ev'.call.mimeType = image.mimeType
      /\ (ev'.step = "finished" /\ ev'.kind = "GenerateAll" /\ ev'.outcome.ok
            /\ ev'.fn # "generateTextContent" /\ ev'.isolated)
           => /\ Contains(thumbnailPrompt', ToStr(generatedContent'.seoTitle))
              /\ Contains(thumbnailPrompt', NoTextInstruction)
              /\ ev'.issued = <<"generateTextContent", ev'.fn>>
              /\ thumbnailUrl' = ev'.outcome.value
              /\ thumbnailUrl' # <<>>
              /\ NoneBusy'
              /\ error' = "" ]_vars

\* an isolated GenerateAll with an uploaded image has succeeded
C7_Witness ==
  /\ Ended("GenerateAll")
  /\ ev.isolated
  /\ ev.issued = <<"generateTextContent", "editImage">>
  /\ ev.outcome.ok
  /\ thumbnailUrl = DataUrl(Png, <<"EDT1">>)
  /\ Contains(thumbnailPrompt, Title1)
  /\ error = ""
  /\ NoneBusy

(* C8: RegenerateThumbnail with a blank prompt, and EditThumbnail with a blank *)
(* instruction or without a thumbnail, are rejected: no gateway call is        *)
(* issued, the error becomes the validation message, and isThumbnailLoading    *)
(* and the thumbnail are unchanged.                                            *)
C8_BlankRefinementsRejected ==
  [][ /\ (Invoked("RegenerateThumbnail") /\ Trim(thumbnailPrompt) = <<>>)
           => /\ ev'.step = "rejected"
              /\ Pending(inflight') = Pending(inflight)
              /\ error' = PromptEmptyMsg
              /\ UNCHANGED <<isThumbnailLoading, thumbnailUrl>>
      /\ (Invoked("EditThumbnail") /\ (Trim(editPrompt) = <<>> \/ thumbnailUrl = <<>>))
           => /\ ev'.step = "rejected"
              /\ Pending(inflight') = Pending(inflight)
              /\ error' = IF Trim(editPrompt) = <<>> THEN EditEmptyMsg ELSE NoThumbnailMsg
              /\ UNCHANGED <<isThumbnailLoading, thumbnailUrl>> ]_vars

\* an edit was rejected with an image uploaded and no thumbnail generated
C8_Witness ==
  /\ ev.step = "rejected"
  /\ ev.kind = "EditThumbnail"
  /\ editPrompt # <<>>
  /\ userImage # Null
  /\ thumbnailUrl = <<>>
  /\ generatedContent = Null
  /\ error = NoThumbnailMsg
  /\ inflight = <<>>

RECURSIVE NoImagePart(_)
NoImagePart(parts) ==
  parts = <<>> \/ (Head(parts).inlineData.t = "undefined" /\ NoImagePart(Tail(parts)))

(* C9: when the response to editImage carries no image part the error shown is *)
(* the refusal message, and the generic edit failure message is shown only     *)
(* when the provider call itself failed.                                       *)
C9_RefusalMessageShown ==
  (ev.step = "finished" /\ ev.fn = "editImage")
    => /\ (ev.resp.t = "response" /\ ev.resp.candidates.t = "array"
             /\ NoImagePart(ev.resp.candidates.items[1].content.parts))
          => (ev.outcome = Throw(EditRefusedMsg) /\ error = EditRefusedMsg)
       /\ (ev.outcome = Throw(EditFailedMsg))
          => (ev.resp.t = "throw" \/ ev.resp.candidates.t # "array")

(* C10: an operation that starts leaves the error empty; the error goes from   *)
(* empty to set only in a step in which an operation fails; an operation that  *)
(* ran in isolation ends with an error if and only if its gateway call failed. *)
C10_ErrorLifecycle ==
  [][ /\ ev'.step = "started" => error' = ""
      /\ (error = "" /\ error' # "")
           => \/ ev'.step = "rejected"
              \/ ev'.step = "finished" /\ ev'.how # "resolved"
      /\ (ev'.step = "finished" /\ ev'.isolated)
           => (error' # "" <=> ~ev'.outcome.ok) ]_vars

\* the first part of a response that carries an image
FirstImagePart(parts) ==
  parts[CHOOSE i \in 1..Len(parts) :
          /\ parts[i].inlineData.t # "undefined"
          /\ \A j \in 1..(i - 1) : parts[j].inlineData.t = "undefined"].inlineData

\* the mime type and bytes a gateway function encodes into the value it returns
EncodedPair(fn, resp) ==
  IF fn = "generateImageFromText"
  THEN [mimeType |-> Jpeg, base64Data |-> resp.generatedImages.items[1].imageBytes]
  ELSE LET part == FirstImagePart(resp.candidates.items[1].content.parts)
       IN [mimeType |-> part.mimeType, base64Data |-> part.data]

(* C11: taking the stored thumbnail apart gives back the mime type and bytes   *)
(* the gateway put into it; an EditThumbnail calls editImage with the mime     *)
(* type and bytes of the thumbnail stored when it is invoked and with the      *)
(* instruction typed, never with the bytes of the uploaded image; an edit      *)
(* invoked right after a successful edit is given the output of that edit.     *)
C11_EditsCurrentThumbnail ==
  [][ /\ (ev'.step = "finished" /\ ev'.how = "resolved")
           => /\ thumbnailUrl' = ev'.outcome.value
              /\ DecodeThumbnail(thumbnailUrl') = Return(EncodedPair(ev'.fn, ev'.resp))
      /\ (ev'.step = "started" /\ ev'.kind = "EditThumbnail")
           => /\ ev'.call.fn = "editImage"
              /\ DataUrl(ev'.call.mimeType, ev'.call.base64ImageData) = thumbnailUrl
              /\ ev'.call.mimeType \in {Png, Jpeg}
              /\ ev'.call.prompt = editPrompt
              /\ userImage # Null => ev'.call.base64ImageData # userImage.data
              /\ (Ended("EditThumbnail") /\ ev.how = "resolved")
                   => /\ ev.outcome.value
                           = DataUrl(ev'.call.mimeType, ev'.call.base64ImageData)
                      /\ [mimeType |-> ev'.call.mimeType,
                          base64Data |-> ev'.call.base64ImageData]
                           = EncodedPair(ev.fn, ev.resp) ]_vars

\* an edit of an edited thumbnail has started while an uploaded image is present
C11_Witness ==
  /\ ev.step = "started"
  /\ ev.kind = "EditThumbnail"
  /\ ev.call.mimeType = Png
  /\ ev.call.base64ImageData = <<"EDT1">>
  /\ thumbnailUrl = DataUrl(Png, <<"EDT1">>)
  /\ userImage # Null
  /\ userImage.data = <<"SRC1">>

\* data URLs from which no mime type can be recovered
NoMimeUrls ==
  { <<"blob">>, <<"data", ":", ";", "base64", ",", "AAAA">>, <<"data", ":">> }

(* C12: DownloadThumbnail without a thumbnail saves nothing; with one it saves *)
(* the thumbnail under a name whose extension is the subtype of the stored     *)
(* mime type (png for image/png); the extension is jpeg when no mime type can  *)
(* be recovered; in either case the state of the orchestrator and the calls    *)
(* in flight are unchanged.                                                    *)
C12_DownloadExportsOnly ==
  /\ \A url \in NoMimeUrls : DownloadExtension(url) = <<"jpeg">>
  /\ DownloadExtension(DataUrl(Png, <<"AAAA">>)) = <<"png">>
  /\ [][ ev'.step = "download"
           => /\ UNCHANGED <<state, inflight>>
              /\ ev'.saved <=> thumbnailUrl # <<>>
              /\ ev'.saved
                   => /\ ev'.href = thumbnailUrl
                      /\ \E m \in {Png, Jpeg} :
                           /\ SubSeq(thumbnailUrl, 1, 6) = <<"data", ":">> \o m \o <<";">>
                           /\ ev'.download = <<"dekhao-thumbnail-", "<now>", ".", m[3]>> ]_vars

\* a png thumbnail was downloaded while an operation was in flight
C12_Witness ==
  /\ ev.step = "download"
  /\ ev.saved
  /\ thumbnailUrl = DataUrl(Png, <<"EDT1">>)
  /\ ev.download = <<"dekhao-thumbnail-", "<now>", ".", "png">>
  /\ inflight # <<>>

(* C13: in every state in which the image call of a GenerateAll is in flight,  *)
(* isTextLoading is false, the generated text is stored, and                   *)
(* isThumbnailLoading and isLoading are true; after the image call of a        *)
(* GenerateAll has failed the generated text is still stored.                  *)
C13_TextShownBeforeImage ==
  /\ \A i \in 1..Len(inflight) :
       (inflight[i].kind = "GenerateAll" /\ inflight[i].pc = "image")
         => /\ ~isTextLoading
            /\ generatedContent.t = "object"
            /\ isThumbnailLoading
            /\ isLoading
  /\ (Ended("GenerateAll") /\ ev.how = "imageRejected") => generatedContent.t = "object"

(* C14: for every list of response parts, when editImage succeeds the value    *)
(* it returns is made of the mime type and bytes of the first part in list     *)
(* order that carries an image, whatever text parts precede it and whatever    *)
(* image parts follow it.                                                      *)
C14_FirstImagePartReturned ==
  (ev.step = "returned" /\ ev.outcome.ok)
    => LET parts == ev.resp.candidates.items[1].content.parts
       IN \E i \in 1..Len(parts) :
            /\ parts[i].inlineData.t # "undefined"
            /\ \A j \in 1..(i - 1) : parts[j].inlineData.t = "undefined"
            /\ ev.outcome.value
                 = DataUrl(parts[i].inlineData.mimeType, parts[i].inlineData.data)

\* editImage returned the image after a text part and before two other images
C14_Witness ==
  /\ ev.step = "returned"
  /\ ev.resp.candidates.items[1].content.parts
       = <<TextPart, ImagePart(Jpeg, <<"EDT2">>), ImagePart(Png, <<"EDT1">>)>>
  /\ ev.outcome = Return(DataUrl(Jpeg, <<"EDT2">>))

\* a RegenerateThumbnail goes ahead: the flag, the cleared fields and its one call
RegenerateGoesAhead ==
  /\ ev'.step = "started"
  /\ isThumbnailLoading'
  /\ error' = ""
  /\ editPrompt' = <<>>
  /\ ev'.call.prompt = thumbnailPrompt
  /\ IF userImage # Null
     THEN /\ ev'.call.fn = "editImage"
          /\ ev'.call.base64ImageData = userImage.data
          /\ ev'.call.mimeType = userImage.mimeType
     ELSE ev'.call.fn = "generateImageFromText"
  /\ Pending(inflight')
       = Append(Pending(inflight), <<ev'.slot, "RegenerateThumbnail", ev'.call.fn>>)
  /\ \E s \in Slots : s = ev'.slot /\ OpAt(s)'.issued = <<ev'.call.fn>>
  /\ UNCHANGED <<isLoading, isTextLoading>>

\* a RegenerateThumbnail ends having issued one image call and no text call
RegenerateEndsAfterOneCall ==
  (ev'.step = "finished" /\ ev'.kind = "RegenerateThumbnail")
    => /\ Len(ev'.issued) = 1
       /\ ev'.issued[1] \in {"editImage", "generateImageFromText"}
       /\ UNCHANGED <<isLoading, isTextLoading>>

(* C15 as stated: RegenerateThumbnail invoked with a non-empty prompt sets     *)
(* isThumbnailLoading, clears the error and the quick-edit instruction, and    *)
(* issues exactly one image call with the prompt as edited: editImage on the   *)
(* uploaded image if there is one at that moment, generateImageFromText        *)
(* otherwise; it issues no text call and leaves isLoading and isTextLoading.   *)
C15_NonEmptyPromptRegenerates ==
  [][ /\ (Invoked("RegenerateThumbnail") /\ thumbnailPrompt # <<>>) => RegenerateGoesAhead
      /\ RegenerateEndsAfterOneCall ]_vars

(* C15 amended: the same for a prompt that is non-empty after trimming; a      *)
(* prompt of whitespace only is rejected.                                      *)
C15_NonBlankPromptRegenerates ==
  [][ /\ (Invoked("RegenerateThumbnail") /\ Trim(thumbnailPrompt) # <<>>) => RegenerateGoesAhead
      /\ RegenerateEndsAfterOneCall ]_vars

\* a regeneration with the prompt typed by the user has started on the uploaded image
C15_Witness ==
  /\ ev.step = "started"
  /\ ev.kind = "RegenerateThumbnail"
  /\ ev.call.fn = "editImage"
  /\ ev.call.base64ImageData = <<"SRC1">>
  /\ ev.call.prompt = <<"a", " ", "cat">>
  /\ thumbnailPrompt = <<"a", " ", "cat">>
  /\ editPrompt = <<>>
  /\ isThumbnailLoading
  /\ ~isLoading

(* C16: the thumbnail prompt changes only in the step in which the text call   *)
(* of a GenerateAll succeeds, where it becomes the prompt sent with the image  *)
(* call, and when the user edits it (a step that changes nothing else):        *)
(* starting, rejecting or finishing any operation, a failed text call and a    *)
(* download leave it unchanged.                                                *)
C16_PromptWrittenByTextStepOrUser ==
  [][ /\ thumbnailPrompt' # thumbnailPrompt
           => \/ /\ ev'.step = "textResolved"
                 /\ AwaitsText(ev'.slot)
                 /\ thumbnailPrompt' = ev'.call.prompt
              \/ /\ ev'.step = "input"
                 /\ UNCHANGED <<videoIdea, generatedContent, thumbnailUrl, userImage,
                                thumbnailStyle, editPrompt, isLoading, isTextLoading,
                                isThumbnailLoading, error, inflight>>
      /\ ev'.step \in {"started", "rejected", "finished", "download"}
           => UNCHANGED thumbnailPrompt ]_vars

\* the text call of a GenerateAll failed and the prompt typed by the user is still there
C16_Witness ==
  /\ Ended("GenerateAll")
  /\ ev.fn = "generateTextContent"
  /\ ~ev.outcome.ok
  /\ thumbnailPrompt = <<"a", " ", "cat">>

(* C17: a RegenerateThumbnail or EditThumbnail whose gateway call fails keeps  *)
(* the thumbnail and sets the error, changing nothing else but its busy flag;  *)
(* a GenerateAll empties the thumbnail when it starts, and a GenerateAll that  *)
(* fails ends with the thumbnail empty.                                        *)
C17_FailureKeepsOrClearsThumbnail ==
  [][ /\ (ev'.step = "finished" /\ ev'.kind \in {"RegenerateThumbnail", "EditThumbnail"}
            /\ ~ev'.outcome.ok)
           => /\ error' # ""
              /\ UNCHANGED <<thumbnailUrl, generatedContent, thumbnailPrompt, editPrompt,
                             videoIdea, userImage, thumbnailStyle, isLoading, isTextLoading>>
      /\ (ev'.step = "started" /\ ev'.kind = "GenerateAll") => thumbnailUrl' = <<>>
      /\ (ev'.step = "finished" /\ ev'.kind = "GenerateAll" /\ ev'.how # "resolved")
           => /\ error' # ""
              /\ thumbnailUrl' = <<>> ]_vars

(* C18: with the handlers reachable only through the controls the view         *)
(* renders, whenever an image call is in flight isThumbnailLoading is true,    *)
(* and at most one of GenerateAll, RegenerateThumbnail and EditThumbnail is in *)
(* flight.                                                                     *)
C18_OneThumbnailOperation ==
  /\ (\E i \in 1..Len(inflight) : inflight[i].pc = "image") => isThumbnailLoading
  /\ Len(inflight) <= 1

(* C19: when the last operation in flight finishes and no operation started    *)
(* after it, the thumbnail is its result if it succeeded and is empty if it    *)
(* was a GenerateAll that failed; and the result of a RegenerateThumbnail or   *)
(* EditThumbnail that returns while a GenerateAll started after it is in       *)
(* flight does not change the thumbnail.                                       *)
C19_LatestOperationWins ==
  [][ /\ (ev'.step = "finished" /\ inflight' = <<>> /\ ~ev'.superseded)
           => /\ ev'.how = "resolved" => thumbnailUrl' = ev'.outcome.value
              /\ (ev'.kind = "GenerateAll" /\ ev'.how # "resolved") => thumbnailUrl' = <<>>
      /\ (ev'.step = "finished" /\ ev'.kind \in {"RegenerateThumbnail", "EditThumbnail"}
            /\ \E i \in 1..Len(inflight) :
                 /\ inflight[i].kind = "GenerateAll"
                 /\ \E j \in 1..(i - 1) : inflight[j].slot = ev'.slot)
           => UNCHANGED thumbnailUrl ]_vars

IncorporatePhrase ==
  <<"Incorporate the subject from the provided image into a new scene for a YouTube thumbnail about ">>
CreatePhrase == <<"Create a YouTube thumbnail for a video titled ">>

(* C20: in the step in which the text call of a GenerateAll succeeds, the      *)
(* prompt stored is the prompt sent; it is the incorporate-the-subject prompt  *)
(* exactly when the call is editImage, which is then given the image that was  *)
(* uploaded when the GenerateAll was invoked, and the create-a-thumbnail       *)
(* prompt exactly when the call is generateImageFromText, which happens when   *)
(* no image was uploaded at invocation; the style named in the prompt is the   *)
(* style selected at invocation. Uploads, removals and style changes made      *)
(* while the text call is in flight do not matter.                             *)
C20_PromptMatchesCall ==
  [][ (ev'.step = "textResolved" /\ AwaitsText(ev'.slot))
        => LET op == OpAt(ev'.slot)
           IN /\ thumbnailPrompt' = ev'.call.prompt
              /\ Contains(thumbnailPrompt', IncorporatePhrase) <=> ev'.call.fn = "editImage"
              /\ Contains(thumbnailPrompt', CreatePhrase)
                   <=> ev'.call.fn = "generateImageFromText"
              /\ ev'.call.fn \in {"editImage", "generateImageFromText"}
              /\ ev'.call.fn = "editImage"
                   => /\ op.userImage # Null
                      /\ ev'.call.base64ImageData = op.userImage.data
                      /\ ev'.call.mimeType = op.userImage.mimeType
              /\ ev'.call.fn = "generateImageFromText" => op.userImage = Null
              /\ Contains(thumbnailPrompt', <<"Style: ", op.thumbnailStyle>>) ]_vars

\* the create-a-thumbnail prompt went to generateImageFromText although an image
\* was uploaded and the style changed while the text call was in flight
C20_Witness ==
  /\ ev.step = "textResolved"
  /\ ev.call.fn = "generateImageFromText"
  /\ Contains(thumbnailPrompt, CreatePhrase)
  /\ Contains(thumbnailPrompt, <<"Style: ", "Cinematic">>)
  /\ userImage # Null
  /\ thumbnailStyle = "Vibrant"

====
